---- MODULE Spec2Model ----
(***************************************************************************)
(* Patch application (shared/diff_manager.py) and the validate/repair loop *)
(* (code_agent/service.py) of the coding agent.                            *)
(*                                                                         *)
(* Text is a sequence of tokens.  A token is one ordinary character, or    *)
(* one of the three literal delimiters of the patch wire format, each      *)
(* taken as one indivisible token.                                         *)
(***************************************************************************)
EXTENDS Integers, Sequences, FiniteSets, TLC

VARIABLES
    \* ---- DiffManager.apply_diff, one call ----
    original_content,   \* argument
    diff_content,       \* argument
    matches,            \* list(pattern.finditer(diff_content)) as (search, replace) groups
    mi,                 \* position of the for-loop over matches
    modified_content,   \* the accumulating buffer
    dpc,                \* "idle" | "call" | "blocks" | "done"
    dres,               \* outcome of the call: value returned or ValueError raised
    dlog,               \* history: each block application (buffer, search, replace, outcome)
    \* ---- CodeAgentService.validate_and_fix, one session ----
    changes,            \* the ChangeSet: filename -> payload
    keys,               \* the dict's keys in insertion order
    disk,               \* the workspace: filename -> [exists, c]
    ruff,               \* how the style checker behaves in this environment
    retry_count,
    idx,                \* position of the for-loop over changes.items()
    files_with_errors,  \* list of <<filename, diagnostic>>
    staged,             \* repo_git.index
    pc,                 \* "idle" | "entry" | "while" | "for" | "done"
    ret,                \* "none" | "true" | "false"
    rounds,             \* history: apply/validate rounds started
    fix_requests,       \* history: calls of llm_client.fix_code
    ops,                \* history: what this round did to each file, and whether apply_diff was called
    clean,              \* history: files that passed in an earlier round, payload not replaced since
    request,            \* history: the last fix request
    writes,             \* history: file writes since the session began
    \* ---- CodeAgentService.check_code, one call ----
    cfile,              \* argument: the file's name
    csrc,               \* what the file holds
    cenv,               \* how the style checker behaves in this environment
    cpc,                \* "idle" | "call" | "syntax" | "lint" | "done"
    cres,               \* "pending", or the value returned ("none" for None)
    compiled,           \* history: compile() was called
    linted,             \* history: the style checker was invoked
    cembed,             \* history: the checker output put into the diagnostic
    \* ---- process_issue / process_pr_feedback, one call ----
    kcaller,            \* "issue" | "feedback"
    kenv,               \* what the services around the call do (see CallerEnvs)
    kpc,                \* position in the caller, "returned" at its end
    kret,               \* "notcalled", or what validate_and_fix returned
    kcommit,            \* history: repo_git.index.commit was called
    kpush,              \* history: the push succeeded
    kpr,                \* history: a pull request was created
    kcomment,           \* history: the halt comment was posted on the pull request
    \* ---- validate_and_fix, where one ChangeSet key lands in the file tree ----
    filename,           \* the ChangeSet key, a path as a sequence of segments
    penv,               \* "open": the process may write anywhere; "guarded": only below the root
    full_path,          \* os.path.join(self.local_repo_path, filename)
    ppc,                \* "idle" | "join" | "makedirs" | "write" | "written" | "raised"
    made,               \* history: the directories os.makedirs created
    written             \* history: the files opened for writing

dvars == <<original_content, diff_content, matches, mi, modified_content, dpc, dres, dlog>>
svars == <<changes, keys, disk, ruff, retry_count, idx, files_with_errors, staged,
           pc, ret, rounds, fix_requests, ops, clean, request, writes>>
cvars == <<cfile, csrc, cenv, cpc, cres, compiled, linted, cembed>>
kvars == <<kcaller, kenv, kpc, kret, kcommit, kpush, kpr, kcomment>>
pvars == <<filename, penv, full_path, ppc, made, written>>
vars == <<dvars, svars, cvars, kvars, pvars>>

------------------------------------------------------------------------------
(* Bounds of the model *)
MaxOLen == 4        \* longest original content drawn
MaxSLen == 2        \* longest search / replace text drawn
MaxSrcLen == 2      \* longest file content handed to check_code alone
MaxCommits == 4     \* most commits a pull request is drawn with
MaxSegs == 3        \* most segments of a ChangeSet key drawn as a path
MaxLines == 2       \* most lines of a block body drawn line by line

------------------------------------------------------------------------------
(* Tokens *)
NL  == "\n"
SO  == "<<<<<< SEARCH"
SEP == "======"
RC  == ">>>>>> REPLACE"

Letters == {"a", "b"}

\* all texts over alphabet A of length at most n
Texts(A, n) == UNION {[1..k -> A] : k \in 0..n}

------------------------------------------------------------------------------
(* Python str primitives used by apply_diff *)

\* s occurs in o starting at position p (1-based)
OccursAt(s, o, p) ==
    /\ p >= 1
    /\ p + Len(s) - 1 <= Len(o)
    /\ SubSeq(o, p, p + Len(s) - 1) = s

\* tok in text (single token)
HasTok(tok, o) == \E p \in 1..Len(o) : o[p] = tok

\* s in o
StrIn(s, o) == \E p \in 1..(Len(o) + 1) : OccursAt(s, o, p)

\* o.find(s, from): least start position >= from, 0 when there is none
StrFind(s, o, from) ==
    LET ps == {p \in from..(Len(o) + 1) : OccursAt(s, o, p)}
    IN  IF ps = {} THEN 0 ELSE CHOOSE p \in ps : \A q \in ps : p <= q

\* o.count(s): number of non-overlapping occurrences, scanned left to right
RECURSIVE CountFrom(_, _, _)
CountFrom(s, o, from) ==
    LET p == StrFind(s, o, from)
    IN  IF p = 0 THEN 0 ELSE 1 + CountFrom(s, o, p + Len(s))

StrCount(s, o) == IF s = <<>> THEN Len(o) + 1 ELSE CountFrom(s, o, 1)

\* o.replace(s, r, 1): the first occurrence replaced
StrReplaceFirst(s, r, o) ==
    LET p == StrFind(s, o, 1)
    IN  IF p = 0 THEN o
        ELSE SubSeq(o, 1, p - 1) \o r \o SubSeq(o, p + Len(s), Len(o))

------------------------------------------------------------------------------
(* The block pattern  <<<<<< SEARCH\n(.*?)\n======\n(.*?)\n>>>>>> REPLACE     *)
(* with re.DOTALL: both groups are non-greedy and match any text.            *)

\* least j >= from with d[j..j+2] = \n ====== \n   (0: none)
SepAt(d, from) ==
    LET js == {j \in from..(Len(d) - 2) : d[j] = NL /\ d[j+1] = SEP /\ d[j+2] = NL}
    IN  IF js = {} THEN 0 ELSE CHOOSE j \in js : \A q \in js : j <= q

\* least k >= from with d[k..k+1] = \n >>>>>> REPLACE   (0: none)
CloseAt(d, from) ==
    LET ks == {k \in from..(Len(d) - 1) : d[k] = NL /\ d[k+1] = RC}
    IN  IF ks = {} THEN 0 ELSE CHOOSE k \in ks : \A q \in ks : k <= q

\* the match of the pattern anchored at position i, if any
MatchAt(d, i) ==
    IF ~(i + 1 <= Len(d) /\ d[i] = SO /\ d[i+1] = NL)
    THEN [found |-> FALSE, search |-> <<>>, replace |-> <<>>, end |-> 0]
    ELSE LET j == SepAt(d, i + 2)
             k == IF j = 0 THEN 0 ELSE CloseAt(d, j + 3)
         IN  IF j = 0 \/ k = 0
             THEN [found |-> FALSE, search |-> <<>>, replace |-> <<>>, end |-> 0]
             ELSE [found   |-> TRUE,
                   search  |-> SubSeq(d, i + 2, j - 1),
                   replace |-> SubSeq(d, j + 3, k - 1),
                   end     |-> k + 2]

\* list(pattern.finditer(d)): leftmost matches, each search resuming where the
\* previous match ended
RECURSIVE FindIter(_, _)
FindIter(d, pos) ==
    LET is == {i \in pos..Len(d) : MatchAt(d, i).found}
    IN  IF is = {} THEN <<>>
        ELSE LET i == CHOOSE x \in is : \A y \in is : x <= y
                 m == MatchAt(d, i)
             IN  <<[search |-> m.search, replace |-> m.replace]>> \o FindIter(d, m.end)

------------------------------------------------------------------------------
(* apply_diff *)

Returned(c) == [ok |-> TRUE,  val |-> c,    err |-> "none"]
Raised(e)   == [ok |-> FALSE, val |-> <<>>, err |-> e]
NoResult    == [ok |-> FALSE, val |-> <<>>, err |-> "pending"]

\* variant: the original is kept whenever no block matched
NoBlocksFallback_KeepOriginal(o, d) == Returned(o)

\* variant: a payload without blocks is always taken as the full content
NoBlocksFallback_AsFullContent(o, d) == Returned(d)

\* lines 30-40: no block matched
NoBlocksFallback(o, d) ==
    IF ~HasTok(SO, d) THEN Returned(d) ELSE Returned(o)

\* variant: the first occurrence is replaced without the uniqueness test
ApplyBlock_FirstMatch(c, s, r) ==
    IF StrIn(s, c) THEN Returned(StrReplaceFirst(s, r, c)) ELSE Raised("NotFound")

\* variant: a block whose search text is missing is skipped silently
ApplyBlock_SkipMissing(c, s, r) ==
    IF StrIn(s, c)
    THEN IF StrCount(s, c) > 1
         THEN Raised("Ambiguous")
         ELSE Returned(StrReplaceFirst(s, r, c))
    ELSE Returned(c)

\* variant: the text after the occurrence is resumed one character late
ApplyBlock_DropNext(c, s, r) ==
    IF StrIn(s, c)
    THEN IF StrCount(s, c) > 1
         THEN Raised("Ambiguous")
         ELSE Returned(SubSeq(c, 1, StrFind(s, c, 1) - 1) \o r
                       \o SubSeq(c, StrFind(s, c, 1) + Len(s) + 1, Len(c)))
    ELSE Raised("NotFound")

\* variant: the replacement is inserted and the search text is left in place
ApplyBlock_KeepSearch(c, s, r) ==
    IF StrIn(s, c)
    THEN IF StrCount(s, c) > 1
         THEN Raised("Ambiguous")
         ELSE Returned(SubSeq(c, 1, StrFind(s, c, 1) - 1) \o r
                       \o SubSeq(c, StrFind(s, c, 1), Len(c)))
    ELSE Raised("NotFound")

\* variant: the text after the replaced occurrence is lost
ApplyBlock_Truncate(c, s, r) ==
    IF StrIn(s, c)
    THEN IF StrCount(s, c) > 1
         THEN Raised("Ambiguous")
         ELSE Returned(SubSeq(c, 1, StrFind(s, c, 1) - 1) \o r)
    ELSE Raised("NotFound")

\* lines 49-58: one block against the current buffer
ApplyBlock(c, s, r) ==
    IF StrIn(s, c)
    THEN IF StrCount(s, c) > 1
         THEN Raised("Ambiguous")
         ELSE Returned(StrReplaceFirst(s, r, c))
    ELSE Raised("NotFound")

\* lines 42-60: the loop over the matches; a ValueError leaves the loop
RECURSIVE ApplyBlocks(_, _, _)
RECURSIVE AfterBlock(_, _, _)
ApplyBlocks(c, ms, i) ==
    IF i > Len(ms) THEN Returned(c)
    ELSE AfterBlock(ApplyBlock(c, ms[i].search, ms[i].replace), ms, i)
AfterBlock(b, ms, i) ==
    IF b.ok THEN ApplyBlocks(b.val, ms, i + 1) ELSE b

\* lines 28-60, given the matches
ApplyMatches(o, d, ms) ==
    IF ms = <<>> THEN NoBlocksFallback(o, d) ELSE ApplyBlocks(o, ms, 1)

\* the whole function
ApplyDiff(o, d) == ApplyMatches(o, d, FindIter(d, 1))

------------------------------------------------------------------------------
(* Payloads handed to apply_diff *)

\* one block in the wire format
Block(s, r) == <<SO, NL>> \o s \o <<NL, SEP, NL>> \o r \o <<NL, RC>>

SRTexts    == Texts(Letters, MaxSLen)
ShortTexts == Texts(Letters, MaxSLen - 1)

\* no start marker: plain text, or text with stray separator / close delimiters
FullPayloads   == Texts(Letters, MaxSLen)
                  \cup {s \o <<NL, SEP, NL>> \o s \o <<NL, RC>> : s \in ShortTexts}
OneBlock       == {Block(s, r) : s \in SRTexts, r \in SRTexts}
TwoBlocks      == {Block(b[1], b[2]) \o <<NL>> \o Block(b[3], b[4]) :
                      b \in ShortTexts \X ShortTexts \X ShortTexts \X ShortTexts}
\* the marker is present but the pattern matches nowhere
Malformed      == {<<SO>> \o s : s \in ShortTexts}
                  \cup {<<SO, NL>> \o s \o <<NL, SEP, NL, RC>> : s \in ShortTexts}
                  \cup {<<SO, NL, SEP, NL>> \o s \o <<NL, RC>> : s \in ShortTexts}
                  \cup {<<SO, NL>> \o s \o <<NL, SEP, NL>> \o s : s \in ShortTexts}

\* two blocks with non-empty search texts; a replace text is empty, or a letter
\* of the originals, or a letter that occurs in no original
ReplTexts      == {<<>>, <<"b">>, <<"c">>}
BlockPairs     == {Block(s1, r1) \o <<NL>> \o Block(s2, r2) :
                      s1 \in SRTexts \ {<<>>}, r1 \in ReplTexts,
                      s2 \in SRTexts \ {<<>>}, r2 \in ReplTexts}

\* payloads written line by line: every line, the delimiters included, ends
\* with a newline. A body is a list of lines; a line is a letter, or it reads
\* like the separator or the close delimiter.
BodyLines      == {<<"a">>, <<SEP>>, <<RC>>}
Bodies(n)      == UNION {[1..k -> BodyLines] : k \in 0..n}

\* the lines of a body, each with its newline
RECURSIVE LinesText(_)
LinesText(ls) == IF ls = <<>> THEN <<>> ELSE Head(ls) \o <<NL>> \o LinesText(Tail(ls))

\* the lines of a body joined by newlines: the body verbatim
RECURSIVE BodyText(_)
BodyText(ls) ==
    IF ls = <<>> THEN <<>>
    ELSE IF Len(ls) = 1 THEN Head(ls)
    ELSE Head(ls) \o <<NL>> \o BodyText(Tail(ls))

LineBlock(sl, rl) == [s |-> sl, r |-> rl]

\* the wire format of a list of blocks
RECURSIVE Wire(_)
Wire(bs) ==
    IF bs = <<>> THEN <<>>
    ELSE <<SO, NL>> \o LinesText(Head(bs).s) \o <<SEP, NL>> \o LinesText(Head(bs).r) \o <<RC, NL>>
         \o Wire(Tail(bs))

\* one block of up to MaxLines lines a body, or two of up to MaxLines - 1
BlockLists     == {<<LineBlock(sl, rl)>> : sl \in Bodies(MaxLines), rl \in Bodies(MaxLines)}
                  \cup {<<LineBlock(b[1], b[2]), LineBlock(b[3], b[4])>> :
                          b \in Bodies(MaxLines - 1) \X Bodies(MaxLines - 1)
                                \X Bodies(MaxLines - 1) \X Bodies(MaxLines - 1)}
LinePayloads   == {Wire(bs) : bs \in BlockLists}
LineOriginals  == {<<>>, <<"a">>}

DiffPayloads == FullPayloads \cup OneBlock \cup TwoBlocks \cup Malformed \cup BlockPairs
Originals    == Texts(Letters, MaxOLen)

------------------------------------------------------------------------------
(* The workspace and the payload shapes of a session *)

max_retries == 3

PyFile    == "main.py"
OtherFile == "notes.txt"
Files     == {PyFile, OtherFile}

Absent    == [exists |-> FALSE, c |-> <<>>]
OnDisk(c) == [exists |-> TRUE,  c |-> c]

\* a ChangeSet value: a string, a dict (with or without a "content" entry, whose
\* value is a string or not), or any other non-string value
Str(s)         == [t |-> "str",   c |-> "na",      s |-> s]
DictNoContent  == [t |-> "dict",  c |-> "missing", s |-> <<>>]
DictContent(s) == [t |-> "dict",  c |-> "str",     s |-> s]
DictBadContent == [t |-> "dict",  c |-> "other",   s |-> <<>>]
NonString      == [t |-> "other", c |-> "na",      s |-> <<>>]

\* texts used in a session: "a" and "b" compile and lint clean, "x" does not
\* compile, "w" compiles and draws a lint finding
GoodText  == <<"b">>
BadText   == <<"x">>
LintText  == <<"w">>
PatchAB   == Block(<<"a">>, <<"b">>)      \* applies once to "a"
NoBlock   == <<SO, NL, "a">>              \* marker, no block
PatchXA   == Block(<<"x", "a">>, <<"a">>) \* removes one "x" in front of the "a"
Broken    == <<"x", "x", "a">>            \* a file that does not compile, twice over
\* two blocks: on "a" the first applies and the second is not found, on
\* Broken the first applies and the second is ambiguous
PatchTwo  == Block(<<"a">>, <<"b">>) \o <<NL>> \o Block(<<"x">>, <<"a">>)

InitPayloads == {Str(GoodText), Str(BadText), Str(LintText), Str(PatchAB), Str(NoBlock),
                 DictNoContent, DictContent(GoodText), DictBadContent, NonString,
                 Str(PatchXA), Str(PatchTwo)}
FixPayloads  == {Str(GoodText), Str(BadText), Str(PatchAB), NonString}

\* a file is absent, or holds the patch's search text once, or twice; the
\* Python file may also hold text that does not compile
InitDisk == {d \in [Files -> {Absent, OnDisk(<<"a">>), OnDisk(<<"a", "a">>), OnDisk(Broken)}] :
                d[OtherFile] # OnDisk(Broken)}

\* how `ruff check` behaves: binary missing, subprocess.run raising another
\* error, a working checker, a checker that exits non-zero writing only to stderr
RuffEnvs == {"absent", "raises", "works", "stderr_only"}
\* further behaviours, drawn for a check_code call alone: non-zero exit without
\* output, with whitespace on stdout, with output on both streams; zero exit
\* with output on stdout
CheckEnvs == RuffEnvs \cup {"silent_fail", "blank_fail", "both_streams", "chatty_ok"}

------------------------------------------------------------------------------
(* check_code *)

\* compile(source, filename, 'exec') succeeds
Compiles(c) == \A p \in 1..Len(c) : c[p] \in {"a", "b", "w", NL}

\* what compile() does with the text: "z" stands for text that parses but on
\* which compile raises an exception other than SyntaxError (RecursionError,
\* MemoryError); any other token outside the compiling ones is a syntax error
CompileOutcome(c) ==
    IF Compiles(c) THEN "ok"
    ELSE IF \A p \in 1..Len(c) : c[p] \in {"a", "b", "w", NL, "z"} THEN "Exception"
    ELSE "SyntaxError"

\* variant: the syntax stage lets everything through
SyntaxStage_Skip(c) == "none"

\* lines 55-62: the syntax stage; "none" when compile succeeded
SyntaxStage(c) ==
    CASE CompileOutcome(c) = "ok"          -> "none"
      [] CompileOutcome(c) = "SyntaxError" -> "SyntaxError"
      [] OTHER                             -> "Error reading/compiling"

\* str.strip(): leading and trailing whitespace removed
IsSpace(t) == t \in {" ", NL}
RECURSIVE LStrip(_)
LStrip(o) == IF o # <<>> /\ IsSpace(Head(o)) THEN LStrip(Tail(o)) ELSE o
RECURSIVE RStrip(_)
RStrip(o) == IF o # <<>> /\ IsSpace(o[Len(o)]) THEN RStrip(SubSeq(o, 1, Len(o) - 1)) ELSE o
Strip(o) == RStrip(LStrip(o))

\* a completed run of the checker: exit code, captured stdout and stderr
Ran(rc, out, err) == [exc |-> "none", rc |-> rc, stdout |-> out, stderr |-> err]
\* subprocess.run raised
RunRaised(e) == [exc |-> e, rc |-> 0, stdout |-> <<>>, stderr |-> <<>>]

Finding == <<"E">>      \* a line of checker output
Blank   == <<" ", NL>>  \* output that is only whitespace

\* subprocess.run(["ruff", "check", ...], capture_output=True): what the try
\* block sees.  "works" reports a finding on stdout for text holding "w".
RuffRun(c, env) ==
    CASE env = "absent"       -> RunRaised("FileNotFoundError")
      [] env = "raises"       -> RunRaised("Exception")
      [] env = "stderr_only"  -> Ran(2, <<>>, Finding)
      [] env = "silent_fail"  -> Ran(2, <<>>, <<>>)
      [] env = "blank_fail"   -> Ran(1, Blank, <<>>)
      [] env = "both_streams" -> Ran(1, Finding, Finding)
      [] env = "chatty_ok"    -> Ran(0, Finding, <<>>)
      [] OTHER                -> IF HasTok("w", c) THEN Ran(1, Finding, <<>>)
                                 ELSE Ran(0, <<>>, <<>>)

\* variant: the linter stage never fails a file
LintStage_NeverFail(c, env) == "none"

\* variant: any non-zero exit fails the file
LintStage_FailOnExit(c, env) ==
    IF RuffRun(c, env).exc = "none" /\ RuffRun(c, env).rc # 0 THEN "Linter Errors" ELSE "none"

\* lines 64-83: the linter stage; "none" is the None the function returns
LintStage(c, env) ==
    IF /\ RuffRun(c, env).exc = "none"
       /\ RuffRun(c, env).rc # 0
       /\ Strip(RuffRun(c, env).stdout) # <<>>
    THEN "Linter Errors" ELSE "none"

\* line 75: the output put into the diagnostic
LintEmbedded(c, env) == RuffRun(c, env).stdout

\* variant: every file is taken for a Python file
EndsWithPy_Always(f) == TRUE

\* filename.endswith('.py')
EndsWithPy(f) == f = PyFile

\* lines 51-65: which stages of check_code run for file f holding c
CheckTrace(f, c) ==
    [compiled |-> EndsWithPy(f),
     linted   |-> EndsWithPy(f) /\ SyntaxStage(c) = "none"]

\* lines 48-83
CheckCode(f, c, env) ==
    IF ~EndsWithPy(f) THEN "none"
    ELSE IF SyntaxStage(c) # "none" THEN SyntaxStage(c)
    ELSE LintStage(c, env)

------------------------------------------------------------------------------
(* validate_and_fix: the body of the for-loop, for one (filename, content) *)

\* variant: a value that is not a string is written as the empty text
ResolvePayload_Coerce(p) ==
    IF p.t = "dict"
    THEN IF p.c = "missing" THEN [skip |-> TRUE, s |-> <<>>]
         ELSE IF p.c = "str" THEN [skip |-> FALSE, s |-> p.s]
         ELSE [skip |-> FALSE, s |-> <<>>]
    ELSE IF p.t = "str" THEN [skip |-> FALSE, s |-> p.s]
    ELSE [skip |-> FALSE, s |-> <<>>]

\* lines 114-127: the string to work with, or a skip
ResolvePayload(p) ==
    IF p.t = "dict"
    THEN IF p.c = "missing" THEN [skip |-> TRUE, s |-> <<>>]
         ELSE IF p.c = "str" THEN [skip |-> FALSE, s |-> p.s]
         ELSE [skip |-> TRUE, s |-> <<>>]
    ELSE IF p.t = "str" THEN [skip |-> FALSE, s |-> p.s]
    ELSE [skip |-> TRUE, s |-> <<>>]

\* variant: every string payload is sent to the patch engine
LooksLikePatch_Always(s, d) == TRUE

\* variant: the marker alone sends the payload to the patch engine
LooksLikePatch_MarkerOnly(s, d) == HasTok(SO, s)

\* line 129: is the patch engine used
LooksLikePatch(s, d) == HasTok(SO, s) /\ d.exists

\* lines 129-137: the content to write, or the ValueError caught
ResolveContent(s, d) ==
    IF LooksLikePatch(s, d) THEN ApplyDiff(d.c, s) ELSE Returned(s)

\* lines 104-149: what the loop body does for file f with payload p
\*   skipped: `continue` before anything was recorded
\*   wrote: the file was written (content `c`);  checked: check_code ran, result `err`
\*   failed: appended to files_with_errors with diagnostic `err`;  stage: index.add
\*   compiled, linted: the stages of check_code that ran
Skipped ==
    [skipped |-> TRUE, wrote |-> FALSE, c |-> <<>>, checked |-> FALSE,
     failed |-> FALSE, err |-> "none", stage |-> FALSE,
     compiled |-> FALSE, linted |-> FALSE]

\* variant: the caught ValueError is not recorded as a failure
DiffError_NotRecorded(e) ==
    [skipped |-> FALSE, wrote |-> FALSE, c |-> <<>>, checked |-> FALSE,
     failed |-> FALSE, err |-> e, stage |-> FALSE,
     compiled |-> FALSE, linted |-> FALSE]

\* variant: the file is opened for writing before the patch is applied
DiffError_Truncates(e) ==
    [skipped |-> FALSE, wrote |-> TRUE, c |-> <<>>, checked |-> FALSE,
     failed |-> TRUE, err |-> e, stage |-> FALSE,
     compiled |-> FALSE, linted |-> FALSE]

\* lines 134-137
DiffError(e) ==
    [skipped |-> FALSE, wrote |-> FALSE, c |-> <<>>, checked |-> FALSE,
     failed |-> TRUE, err |-> e, stage |-> FALSE,
     compiled |-> FALSE, linted |-> FALSE]

\* variant: a written file is staged whatever check_code returned
WrittenAndChecked_StageAlways(c, e, t) ==
    [skipped |-> FALSE, wrote |-> TRUE, c |-> c, checked |-> TRUE,
     failed |-> e # "none", err |-> e, stage |-> TRUE,
     compiled |-> t.compiled, linted |-> t.linted]

\* lines 139-149, e being what check_code returned and t the stages it ran
WrittenAndChecked(c, e, t) ==
    [skipped |-> FALSE, wrote |-> TRUE, c |-> c, checked |-> TRUE,
     failed |-> e # "none", err |-> e, stage |-> e = "none",
     compiled |-> t.compiled, linted |-> t.linted]

\* lines 129-149, rc being the content resolved or the ValueError
WriteAndCheck(f, rc, env) ==
    IF ~rc.ok THEN DiffError(rc.err)
    ELSE WrittenAndChecked(rc.val, CheckCode(f, rc.val, env), CheckTrace(f, rc.val))

\* lines 114-149, rp being the payload resolved or skipped
AfterResolve(f, rp, d, env) ==
    IF rp.skip THEN Skipped ELSE WriteAndCheck(f, ResolveContent(rp.s, d), env)

FileStep(f, p, d, env) == AfterResolve(f, ResolvePayload(p), d, env)

\* lines 117-133: the loop body reaches the call of apply_diff
EngineInvoked(p, d) == ~ResolvePayload(p).skip /\ LooksLikePatch(ResolvePayload(p).s, d)

\* variant: an empty ChangeSet is not told apart
NoChanges_Never(ch) == FALSE

\* line 93: `not changes`
NoChanges(ch) == DOMAIN ch = {}

\* variant: the budget test is off by one
BudgetExhausted_OffByOne(n) == n > max_retries

\* line 158
BudgetExhausted(n) == n >= max_retries

\* lines 162-166: the error report, one entry (file, diagnostic) per failure
ErrorReport(fwe) == fwe

\* variant: only the first failing file is sent
RequestedFiles_FirstOnly(fwe) == {fwe[1][1]}

\* lines 169-170: the keys of current_broken_code
RequestedFiles(fwe) == {fwe[i][1] : i \in 1..Len(fwe)}

\* variant: the proposed payload is sent back instead of the file's content
CurrentBrokenCode_FromChanges(f, d, ch) == [from |-> "changes", p |-> ch[f]]

\* lines 170-178: the code shown to the producer for file f
CurrentBrokenCode(f, d, ch) ==
    IF d[f].exists THEN [from |-> "disk", p |-> Str(d[f].c)]
    ELSE [from |-> "changes", p |-> ch[f]]

\* variant: a key the ChangeSet already has keeps its old payload
Update_KeepExisting(ch, fx) ==
    [f \in (DOMAIN ch) \cup (DOMAIN fx) |-> IF f \in DOMAIN ch THEN ch[f] ELSE fx[f]]

\* line 184: changes.update(fixed_changes)
Update(ch, fx) ==
    [f \in (DOMAIN ch) \cup (DOMAIN fx) |-> IF f \in DOMAIN fx THEN fx[f] ELSE ch[f]]

\* key order after update: old keys keep their place, new keys are appended
RECURSIVE SetToSeq(_)
SetToSeq(S) == IF S = {} THEN <<>>
               ELSE LET x == CHOOSE y \in S : TRUE IN <<x>> \o SetToSeq(S \ {x})

Range(q) == {q[i] : i \in 1..Len(q)}

\* the last fix request: the paths and the code sent, the report, the ChangeSet
\* before the merge and the producer's answer
NoRequest == [files |-> {}, sent |-> <<>>, report |-> <<>>, prior |-> <<>>, answer |-> <<>>]

SessionIdle ==
    /\ changes = <<>>
    /\ keys = <<>>
    /\ disk = [f \in Files |-> Absent]
    /\ ruff = "works"
    /\ retry_count = 0
    /\ idx = 1
    /\ files_with_errors = <<>>
    /\ staged = {}
    /\ pc = "idle"
    /\ ret = "none"
    /\ rounds = 0
    /\ fix_requests = 0
    /\ ops = <<>>
    /\ clean = {}
    /\ request = NoRequest
    /\ writes = 0

CheckIdle ==
    /\ cfile = PyFile
    /\ csrc = <<>>
    /\ cenv = "works"
    /\ cpc = "idle"
    /\ cres = "pending"
    /\ compiled = FALSE
    /\ linted = FALSE
    /\ cembed = <<>>

CallerIdle ==
    /\ kcaller = "issue"
    /\ kenv = <<>>
    /\ kpc = "idle"
    /\ kret = "notcalled"
    /\ kcommit = FALSE
    /\ kpush = FALSE
    /\ kpr = FALSE
    /\ kcomment = FALSE

PathIdle ==
    /\ filename = <<>>
    /\ penv = "open"
    /\ full_path = <<>>
    /\ ppc = "idle"
    /\ made = {}
    /\ written = {}

DiffIdle ==
    /\ original_content = <<>>
    /\ diff_content = <<>>
    /\ matches = <<>>
    /\ mi = 1
    /\ modified_content = <<>>
    /\ dpc = "idle"
    /\ dres = NoResult
    /\ dlog = <<>>

------------------------------------------------------------------------------
(* Specification of one apply_diff call *)

InitDiff ==
    /\ \/ original_content \in Originals /\ diff_content \in DiffPayloads
       \/ original_content \in LineOriginals /\ diff_content \in LinePayloads
    /\ matches = <<>>
    /\ mi = 1
    /\ modified_content = <<>>
    /\ dpc = "call"
    /\ dres = NoResult
    /\ dlog = <<>>
    /\ SessionIdle
    /\ CheckIdle
    /\ CallerIdle
    /\ PathIdle

\* lines 23-28 and 42: the pattern is run over the payload
DiffParse ==
    /\ dpc = "call"
    /\ matches' = FindIter(diff_content, 1)
    /\ modified_content' = original_content
    /\ dpc' = "blocks"
    /\ UNCHANGED <<original_content, diff_content, mi, dres, dlog, svars, cvars, kvars, pvars>>

\* lines 30-40
DiffNoBlocks ==
    /\ dpc = "blocks"
    /\ matches = <<>>
    /\ dres' = NoBlocksFallback(original_content, diff_content)
    /\ dpc' = "done"
    /\ UNCHANGED <<original_content, diff_content, matches, mi, modified_content, dlog, svars, cvars, kvars, pvars>>

\* the effects of one iteration, b being the outcome of the block
\* variant: the buffer is left as it was, every block sees the original
NextBuffer_Discard(c, b) == c

\* line 54: `modified_content = modified_content.replace(...)`, the buffer
\* the next block is applied to
NextBuffer(c, b) == b.val

BlockEffects(b) ==
    /\ IF b.ok
       THEN /\ modified_content' = NextBuffer(modified_content, b)
            /\ mi' = mi + 1
            /\ UNCHANGED <<dres, dpc>>
       ELSE /\ dres' = b
            /\ dpc' = "done"
            /\ UNCHANGED <<modified_content, mi>>
    /\ dlog' = Append(dlog, [buf     |-> modified_content,
                              search  |-> matches[mi].search,
                              replace |-> matches[mi].replace,
                              res     |-> b])

\* lines 44-58: one iteration of the loop
DiffApplyBlock ==
    /\ dpc = "blocks"
    /\ matches # <<>>
    /\ mi <= Len(matches)
    /\ BlockEffects(ApplyBlock(modified_content, matches[mi].search, matches[mi].replace))
    /\ UNCHANGED <<original_content, diff_content, matches, svars, cvars, kvars, pvars>>

\* line 60
DiffReturn ==
    /\ dpc = "blocks"
    /\ matches # <<>>
    /\ mi > Len(matches)
    /\ dres' = Returned(modified_content)
    /\ dpc' = "done"
    /\ UNCHANGED <<original_content, diff_content, matches, mi, modified_content, dlog, svars, cvars, kvars, pvars>>

NextDiff == DiffParse \/ DiffNoBlocks \/ DiffApplyBlock \/ DiffReturn

SpecDiff == InitDiff /\ [][NextDiff]_vars

------------------------------------------------------------------------------
(* Specification of one validate_and_fix session *)

\* the key sequences a dict over Files can have
KeyOrders == {q \in UNION {[1..k -> Files] : k \in 0..Cardinality(Files)} :
                 \A i, j \in 1..Len(q) : i # j => q[i] # q[j]}

Init ==
    /\ DiffIdle
    /\ CheckIdle
    /\ CallerIdle
    /\ PathIdle
    /\ keys \in KeyOrders
    /\ changes \in [Range(keys) -> InitPayloads]
    /\ disk \in InitDisk
    /\ ruff \in RuffEnvs
    /\ retry_count = 0
    /\ idx = 1
    /\ files_with_errors = <<>>
    /\ staged = {}
    /\ pc = "entry"
    /\ ret = "none"
    /\ rounds = 0
    /\ fix_requests = 0
    /\ ops = <<>>
    /\ clean = {}
    /\ request = NoRequest
    /\ writes = 0

\* lines 93-95
EmptyInput ==
    /\ pc = "entry"
    /\ NoChanges(changes)
    /\ ret' = "false"
    /\ pc' = "done"
    /\ UNCHANGED <<dvars, cvars, kvars, pvars, writes, changes, keys, disk, ruff, retry_count, idx, files_with_errors,
                   staged, rounds, fix_requests, ops, clean, request>>

\* lines 97-101: the while test holds, a round begins
BeginRound ==
    /\ \/ pc = "entry" /\ ~NoChanges(changes)
       \/ pc = "while"
    /\ retry_count < max_retries
    /\ files_with_errors' = <<>>
    /\ idx' = 1
    /\ ops' = <<>>
    /\ rounds' = rounds + 1
    /\ pc' = "for"
    /\ UNCHANGED <<dvars, cvars, kvars, pvars, writes, changes, keys, disk, ruff, retry_count, staged, ret,
                   fix_requests, clean, request>>

\* the effects of one iteration, r being what the loop body did for f
Effects(f, r) ==
    /\ disk' = IF r.wrote THEN [disk EXCEPT ![f] = OnDisk(r.c)] ELSE disk
    /\ files_with_errors' = IF r.failed THEN Append(files_with_errors, <<f, r.err>>)
                            ELSE files_with_errors
    /\ staged' = IF r.stage THEN staged \cup {f} ELSE staged
    /\ ops' = Append(ops, [f |-> f, before |-> disk[f], step |-> r,
                            patched |-> EngineInvoked(changes[f], disk[f])])
    /\ writes' = IF r.wrote THEN writes + 1 ELSE writes

\* lines 104-149: one iteration of the for-loop
ProcessFile ==
    /\ pc = "for"
    /\ idx <= Len(keys)
    /\ Effects(keys[idx], FileStep(keys[idx], changes[keys[idx]], disk[keys[idx]], ruff))
    /\ idx' = idx + 1
    /\ UNCHANGED <<dvars, cvars, kvars, pvars, changes, keys, ruff, retry_count, pc, ret, rounds,
                   fix_requests, clean, request>>

\* lines 152-154
Succeed ==
    /\ pc = "for"
    /\ idx > Len(keys)
    /\ files_with_errors = <<>>
    /\ ret' = "true"
    /\ pc' = "done"
    /\ UNCHANGED <<dvars, cvars, kvars, pvars, writes, changes, keys, disk, ruff, retry_count, idx, files_with_errors,
                   staged, rounds, fix_requests, ops, clean, request>>

\* lines 157-160
Exhaust ==
    /\ pc = "for"
    /\ idx > Len(keys)
    /\ files_with_errors # <<>>
    /\ BudgetExhausted(retry_count + 1)
    /\ retry_count' = retry_count + 1
    /\ ret' = "false"
    /\ pc' = "done"
    /\ UNCHANGED <<dvars, cvars, kvars, pvars, writes, changes, keys, disk, ruff, idx, files_with_errors,
                   staged, rounds, fix_requests, ops, clean, request>>

\* the files that passed check_code in the round just run
PassedThisRound == {ops[i].f : i \in {j \in 1..Len(ops) : ops[j].step.stage}}

\* lines 157-184: the fix request, the producer's answer and the merge
RequestFix ==
    /\ pc = "for"
    /\ idx > Len(keys)
    /\ files_with_errors # <<>>
    /\ ~BudgetExhausted(retry_count + 1)
    /\ retry_count' = retry_count + 1
    /\ \E D \in SUBSET Files : \E fixed_changes \in [D -> FixPayloads] :
         /\ request' = [files  |-> RequestedFiles(files_with_errors),
                        sent   |-> [f \in RequestedFiles(files_with_errors) |->
                                       CurrentBrokenCode(f, disk, changes)],
                        report |-> ErrorReport(files_with_errors),
                        prior  |-> changes,
                        answer |-> fixed_changes]
         /\ changes' = Update(changes, fixed_changes)
         /\ keys' = keys \o SetToSeq(D \ Range(keys))
         /\ clean' = (clean \cup PassedThisRound) \ D
    /\ fix_requests' = fix_requests + 1
    /\ pc' = "while"
    /\ UNCHANGED <<dvars, cvars, kvars, pvars, writes, disk, ruff, idx, files_with_errors, staged, ret, rounds, ops>>

Next == EmptyInput \/ BeginRound \/ ProcessFile \/ Succeed \/ Exhaust \/ RequestFix

Spec == Init /\ [][Next]_vars

------------------------------------------------------------------------------
(* Specification of one check_code call *)

\* file contents: compiling text, text with a lint finding, text with a syntax
\* error, text on which compile raises another exception
Sources == Texts({"a", "w", "x", "z"}, MaxSrcLen)

InitCheck ==
    /\ cfile \in Files
    /\ csrc \in Sources
    /\ cenv \in CheckEnvs
    /\ cpc = "call"
    /\ cres = "pending"
    /\ compiled = FALSE
    /\ linted = FALSE
    /\ cembed = <<>>
    /\ DiffIdle
    /\ SessionIdle
    /\ CallerIdle
    /\ PathIdle

\* lines 51-52: only Python files are checked
CheckExtension ==
    /\ cpc = "call"
    /\ IF ~EndsWithPy(cfile)
       THEN cres' = "none" /\ cpc' = "done"
       ELSE cres' = cres /\ cpc' = "syntax"
    /\ UNCHANGED <<cfile, csrc, cenv, compiled, linted, cembed, dvars, svars, kvars, pvars>>

\* lines 55-62: read and compile; an exception returns its message
CheckSyntax ==
    /\ cpc = "syntax"
    /\ compiled' = TRUE
    /\ IF SyntaxStage(csrc) # "none"
       THEN cres' = SyntaxStage(csrc) /\ cpc' = "done"
       ELSE cres' = cres /\ cpc' = "lint"
    /\ UNCHANGED <<cfile, csrc, cenv, linted, cembed, dvars, svars, kvars, pvars>>

\* lines 65-83: the style checker is run and its outcome judged
CheckLint ==
    /\ cpc = "lint"
    /\ linted' = TRUE
    /\ cres' = LintStage(csrc, cenv)
    /\ cembed' = IF LintStage(csrc, cenv) = "none" THEN <<>> ELSE LintEmbedded(csrc, cenv)
    /\ cpc' = "done"
    /\ UNCHANGED <<cfile, csrc, cenv, compiled, dvars, svars, kvars, pvars>>

NextCheck == CheckExtension \/ CheckSyntax \/ CheckLint

SpecCheck == InitCheck /\ [][NextCheck]_vars

------------------------------------------------------------------------------
(* Specification of one call of process_issue or of process_pr_feedback.    *)
(* validate_and_fix is taken by its result: false for an empty ChangeSet,   *)
(* true or false otherwise.                                                 *)

\* line 343: the number of commits at which the feedback loop halts
MaxIterations == 3

\* what the services around the call do:
\*   fetch_ok    repo.get_issue succeeds
\*   repo_ok     the clone (and checkout) succeeds
\*   produced    the producer's ChangeSet is not empty
\*   valid       what validate_and_fix returns for a ChangeSet that is not empty
\*   push_ok     the push succeeds
\*   pr_ok       repo.create_pull succeeds
\*   commits     the number of commits of the pull request
\*   readable    some changed file of the pull request can be read
\*   comment_ok  pr.create_issue_comment succeeds
CallerEnvs ==
    [fetch_ok : BOOLEAN, repo_ok : BOOLEAN, produced : BOOLEAN, valid : BOOLEAN,
     push_ok : BOOLEAN, pr_ok : BOOLEAN, commits : 0..MaxCommits, readable : BOOLEAN,
     comment_ok : BOOLEAN]

\* the parts of the environment a caller does not look at are held fixed
IssueEnvs    == {e \in CallerEnvs : e.commits = 0 /\ e.readable /\ e.comment_ok}
FeedbackEnvs == {e \in CallerEnvs : e.fetch_ok /\ e.pr_ok}

InitCaller ==
    /\ kcaller \in {"issue", "feedback"}
    /\ kenv \in IF kcaller = "issue" THEN IssueEnvs ELSE FeedbackEnvs
    /\ kpc = "start"
    /\ kret = "notcalled"
    /\ kcommit = FALSE
    /\ kpush = FALSE
    /\ kpr = FALSE
    /\ kcomment = FALSE
    /\ DiffIdle
    /\ SessionIdle
    /\ CheckIdle
    /\ PathIdle

\* lines 93-95 and 152-160: the result of validate_and_fix
SessionResult(e) == IF ~e.produced THEN "false" ELSE IF e.valid THEN "true" ELSE "false"

\* variant: the caller commits whatever validate_and_fix returned
ShouldCommit_Always(r) == TRUE

\* lines 297 and 405: `if self.validate_and_fix(changes, repo_git):`
ShouldCommit(r) == r = "true"

\* variant: the feedback loop halts only above the limit
LoopLimitReached_Above(n) == n > MaxIterations

\* line 343: `if len(commits) >= 3`
LoopLimitReached(n) == n >= MaxIterations

\* lines 211-218
IssueFetch ==
    /\ kcaller = "issue" /\ kpc = "start"
    /\ kpc' = IF kenv.fetch_ok THEN "prepare" ELSE "returned"
    /\ UNCHANGED <<kcaller, kenv, kret, kcommit, kpush, kpr, kcomment, dvars, svars, cvars, pvars>>

\* lines 220-224
IssuePrepare ==
    /\ kcaller = "issue" /\ kpc = "prepare"
    /\ kpc' = IF kenv.repo_ok THEN "generate" ELSE "returned"
    /\ UNCHANGED <<kcaller, kenv, kret, kcommit, kpush, kpr, kcomment, dvars, svars, cvars, pvars>>

\* lines 226-295: context, plan, code; no ChangeSet ends the call
IssueGenerate ==
    /\ kcaller = "issue" /\ kpc = "generate"
    /\ kpc' = IF kenv.produced THEN "validate" ELSE "returned"
    /\ UNCHANGED <<kcaller, kenv, kret, kcommit, kpush, kpr, kcomment, dvars, svars, cvars, pvars>>

\* line 297
IssueValidate ==
    /\ kcaller = "issue" /\ kpc = "validate"
    /\ kret' = SessionResult(kenv)
    /\ kpc' = IF ShouldCommit(SessionResult(kenv)) THEN "commit" ELSE "returned"
    /\ UNCHANGED <<kcaller, kenv, kcommit, kpush, kpr, kcomment, dvars, svars, cvars, pvars>>

\* lines 298-299
IssueCommit ==
    /\ kcaller = "issue" /\ kpc = "commit"
    /\ kcommit' = TRUE
    /\ kpc' = "push"
    /\ UNCHANGED <<kcaller, kenv, kret, kpush, kpr, kcomment, dvars, svars, cvars, pvars>>

\* lines 301-307
IssuePush ==
    /\ kcaller = "issue" /\ kpc = "push"
    /\ kpush' = kenv.push_ok
    /\ kpc' = IF kenv.push_ok THEN "pull_request" ELSE "returned"
    /\ UNCHANGED <<kcaller, kenv, kret, kcommit, kpr, kcomment, dvars, svars, cvars, pvars>>

\* lines 309-322
IssueCreatePR ==
    /\ kcaller = "issue" /\ kpc = "pull_request"
    /\ kpr' = kenv.pr_ok
    /\ kpc' = "returned"
    /\ UNCHANGED <<kcaller, kenv, kret, kcommit, kpush, kcomment, dvars, svars, cvars, pvars>>

\* lines 338-349: loop protection
FeedbackGuard ==
    /\ kcaller = "feedback" /\ kpc = "start"
    /\ IF LoopLimitReached(kenv.commits)
       THEN kcomment' = kenv.comment_ok /\ kpc' = "returned"
       ELSE kcomment' = kcomment /\ kpc' = "prepare"
    /\ UNCHANGED <<kcaller, kenv, kret, kcommit, kpush, kpr, dvars, svars, cvars, pvars>>

\* lines 351-360
FeedbackPrepare ==
    /\ kcaller = "feedback" /\ kpc = "prepare"
    /\ kpc' = IF kenv.repo_ok THEN "collect" ELSE "returned"
    /\ UNCHANGED <<kcaller, kenv, kret, kcommit, kpush, kpr, kcomment, dvars, svars, cvars, pvars>>

\* lines 362-384: the changed files are listed and read
FeedbackCollect ==
    /\ kcaller = "feedback" /\ kpc = "collect"
    /\ kpc' = IF kenv.readable THEN "validate" ELSE "returned"
    /\ UNCHANGED <<kcaller, kenv, kret, kcommit, kpush, kpr, kcomment, dvars, svars, cvars, pvars>>

\* lines 386-405: the producer is asked, its answer goes to validate_and_fix
FeedbackValidate ==
    /\ kcaller = "feedback" /\ kpc = "validate"
    /\ kret' = SessionResult(kenv)
    /\ kpc' = IF ShouldCommit(SessionResult(kenv)) THEN "commit" ELSE "returned"
    /\ UNCHANGED <<kcaller, kenv, kcommit, kpush, kpr, kcomment, dvars, svars, cvars, pvars>>

\* lines 406-407
FeedbackCommit ==
    /\ kcaller = "feedback" /\ kpc = "commit"
    /\ kcommit' = TRUE
    /\ kpc' = "push"
    /\ UNCHANGED <<kcaller, kenv, kret, kpush, kpr, kcomment, dvars, svars, cvars, pvars>>

\* lines 409-414
FeedbackPush ==
    /\ kcaller = "feedback" /\ kpc = "push"
    /\ kpush' = kenv.push_ok
    /\ kpc' = "returned"
    /\ UNCHANGED <<kcaller, kenv, kret, kcommit, kpr, kcomment, dvars, svars, cvars, pvars>>

NextCaller ==
    \/ IssueFetch \/ IssuePrepare \/ IssueGenerate \/ IssueValidate
    \/ IssueCommit \/ IssuePush \/ IssueCreatePR
    \/ FeedbackGuard \/ FeedbackPrepare \/ FeedbackCollect \/ FeedbackValidate
    \/ FeedbackCommit \/ FeedbackPush

SpecCaller == InitCaller /\ [][NextCaller]_vars

------------------------------------------------------------------------------
(* Specification of where validate_and_fix puts one ChangeSet key *)

(* A path is the sequence of its segments; an absolute path begins with the *)
(* segment "/". The payload is a plain string, so lines 117-137 neither     *)
(* skip the file nor fail it. The file tree holds the root and its          *)
(* ancestors and no symbolic link.                                          *)

\* line 17: self.local_repo_path = os.path.join(os.getcwd(), "workdir")
local_repo_path == <<"/", "home", "workdir">>

\* the directories of the file tree before the call
Ancestors == {SubSeq(local_repo_path, 1, k) : k \in 1..Len(local_repo_path)}

\* the ChangeSet keys: relative and absolute paths of up to MaxSegs segments
Segments == {"home", "workdir", "d", "..", "f.py"}
RelativeKeys == UNION {[1..n -> Segments] : n \in 1..MaxSegs}
PathKeys == RelativeKeys \cup {<<"/">> \o k : k \in RelativeKeys}

IsAbs(p) == p # <<>> /\ Head(p) = "/"

\* line 106: os.path.join(a, b), which drops a when b is absolute
Join(a, b) == IF IsAbs(b) THEN b ELSE a \o b

\* line 109: os.path.dirname
Dirname(p) == SubSeq(p, 1, Len(p) - 1)

\* the file-tree entry an absolute path names: ".." steps to the parent, and
\* the parent of "/" is "/"
RECURSIVE Walk(_, _)
Walk(at, rest) ==
    IF rest = <<>> THEN at
    ELSE LET h == Head(rest)
         IN  IF h = "/" THEN Walk(<<"/">>, Tail(rest))
             ELSE IF h = ".." THEN Walk(IF Len(at) > 1 THEN Dirname(at) ELSE at, Tail(rest))
             ELSE Walk(Append(at, h), Tail(rest))

Resolve(p) == Walk(<<>>, p)

\* the entry is the root or lies below it
Inside(p) == Len(p) >= Len(local_repo_path) /\ SubSeq(p, 1, Len(local_repo_path)) = local_repo_path

\* what the operating system lets the process create
Permitted(e, p) == e = "open" \/ Inside(p)

\* line 111: os.makedirs(dir_path, exist_ok=True) creates the missing
\* directories of dir_path from the shortest prefix on, and stops with
\* PermissionError at the first one it may not create
RECURSIVE MakeDirs(_, _, _, _)
MakeDirs(e, dir, k, dirs) ==
    IF k > Len(dir) THEN [raised |-> FALSE, dirs |-> dirs]
    ELSE LET d == Resolve(SubSeq(dir, 1, k))
         IN  IF d \in dirs THEN MakeDirs(e, dir, k + 1, dirs)
             ELSE IF ~Permitted(e, d) THEN [raised |-> TRUE, dirs |-> dirs]
             ELSE MakeDirs(e, dir, k + 1, dirs \cup {d})

InitPath ==
    /\ filename \in PathKeys
    /\ penv \in {"open", "guarded"}
    /\ full_path = <<>>
    /\ ppc = "join"
    /\ made = {}
    /\ written = {}
    /\ DiffIdle
    /\ SessionIdle
    /\ CheckIdle
    /\ CallerIdle

\* line 106
PathJoin ==
    /\ ppc = "join"
    /\ full_path' = Join(local_repo_path, filename)
    /\ ppc' = "makedirs"
    /\ UNCHANGED <<filename, penv, made, written, dvars, svars, cvars, kvars>>

\* lines 109-111
PathMakeDirs ==
    /\ ppc = "makedirs"
    /\ LET r == MakeDirs(penv, Dirname(full_path), 1, Ancestors)
       IN  /\ made' = r.dirs \ Ancestors
           /\ ppc' = IF r.raised THEN "raised" ELSE "write"
    /\ UNCHANGED <<filename, penv, full_path, written, dvars, svars, cvars, kvars>>

\* lines 140-141: open(full_path, "w") raises IsADirectoryError on a
\* directory and PermissionError where the process may not write
PathWrite ==
    /\ ppc = "write"
    /\ LET target == Resolve(full_path)
       IN  IF target \in Ancestors \cup made \/ ~Permitted(penv, target)
           THEN ppc' = "raised" /\ UNCHANGED written
           ELSE ppc' = "written" /\ written' = {target}
    /\ UNCHANGED <<filename, penv, full_path, made, dvars, svars, cvars, kvars>>

NextPath == PathJoin \/ PathMakeDirs \/ PathWrite

SpecPath == InitPath /\ [][NextPath]_vars

------------------------------------------------------------------------------
(* Properties of validate_and_fix (checked under Spec) *)

\* the round's record for file f, if the round reached it
OpsOf(f) == {i \in 1..Len(ops) : ops[i].f = f}
FailingFiles == {files_with_errors[i][1] : i \in 1..Len(files_with_errors)}

\* C1: validate_and_fix returns true only if, in the round it returns from, every
\* file of the ChangeSet was written to disk and check_code passed for it.
C1_TrueOnlyIfAllWrittenAndPass ==
    ret = "true" =>
        \A f \in DOMAIN changes :
            \E i \in OpsOf(f) : ops[i].step.wrote /\ ops[i].step.checked
                                /\ ops[i].step.err = "none"

\* C2: at most max_retries rounds are run and at most max_retries - 1 fixes are
\* requested; a fix request is always followed by a further round (the session
\* is never left without a step before it has returned); when failures remain
\* at the return, false is returned after exactly max_retries rounds and
\* max_retries - 1 fix requests, so no fix is requested for the last round.
C2_BoundedRepair ==
    /\ rounds <= max_retries
    /\ fix_requests <= max_retries - 1
    /\ fix_requests <= rounds
    /\ pc = "while" => (retry_count < max_retries /\ fix_requests = rounds)
    /\ pc = "for" => fix_requests = rounds - 1
    /\ (pc = "done" /\ files_with_errors # <<>>)
          => (ret = "false" /\ rounds = max_retries /\ fix_requests = max_retries - 1)
    /\ pc = "done" => ret \in {"true", "false"}

C2_Witness ==
    /\ pc = "done"
    /\ ret = "false"
    /\ files_with_errors # <<>>
    /\ rounds = max_retries
    /\ fix_requests = max_retries - 1

\* C3: a file that passed validation in an earlier round, and whose payload the
\* producer has not replaced since, is neither written nor validated again.
C3_PassedNeverReprocessed ==
    pc \in {"for", "done"} =>
        \A i \in 1..Len(ops) :
            ops[i].f \in clean => (~ops[i].step.wrote /\ ~ops[i].step.checked)

\* C4: a file that passed validation in an earlier round, and whose payload the
\* producer has not replaced since, is never in the failure set of a later round.
C4_PassIsPermanent ==
    \A f \in clean : f \notin FailingFiles

\* the string payload of record i of the round (meaningful when not skipped)
PayloadText(i) == ResolvePayload(changes[ops[i].f]).s

\* record i is for an existing file whose payload carries the start marker
\* although no block parses from it
MalformedPatch(i) ==
    /\ ~ops[i].step.skipped
    /\ ops[i].before.exists
    /\ HasTok(SO, PayloadText(i))
    /\ FindIter(PayloadText(i), 1) = <<>>

\* C11: when the payload for an existing file contains the start marker but no
\* block parses from it, the round records the file as failing, with a
\* diagnostic, and does not stage it as a success.
C11_MalformedIsDiagnosed ==
    pc \in {"for", "done"} =>
        \A i \in 1..Len(ops) :
            MalformedPatch(i) =>
                /\ ops[i].step.failed
                /\ ~ops[i].step.stage
                /\ ops[i].f \in FailingFiles

\* C13: with an empty initial ChangeSet validate_and_fix returns false at once:
\* no round is run, no file is written, nothing is validated, nothing is staged
\* and no fix is requested.
C13_EmptyInputReturnsFalse ==
    /\ (pc = "entry" /\ DOMAIN changes = {}) =>
          (rounds = 0 /\ fix_requests = 0 /\ ops = <<>> /\ staged = {} /\ writes = 0)
    /\ (pc # "entry" /\ DOMAIN changes = {}) =>
          /\ pc = "done"
          /\ ret = "false"
          /\ rounds = 0
          /\ retry_count = 0
          /\ fix_requests = 0
          /\ ops = <<>>
          /\ files_with_errors = <<>>
          /\ staged = {}
          /\ writes = 0
          /\ request = NoRequest

C13_Witness ==
    /\ pc = "done"
    /\ DOMAIN changes = {}
    /\ ret = "false"
    /\ \E f \in Files : disk[f].exists

\* record i is for an existing file whose patch payload has a block that cannot
\* be applied (search text not found, or found more than once)
BlockRejected(i) ==
    /\ ~ops[i].step.skipped
    /\ ops[i].before.exists
    /\ HasTok(SO, PayloadText(i))
    /\ FindIter(PayloadText(i), 1) # <<>>
    /\ ~ApplyDiff(ops[i].before.c, PayloadText(i)).ok

\* record i wrote the file and check_code found a fault in it
ValidationFailed(i) == ops[i].step.checked /\ ops[i].step.err # "none"

\* record i is in the round's failure set with its diagnostic and was not staged
RecordedAsFailure(i) ==
    /\ ops[i].step.failed
    /\ ops[i].step.err # "none"
    /\ ~ops[i].step.stage
    /\ \E k \in 1..Len(files_with_errors) :
          files_with_errors[k] = <<ops[i].f, ops[i].step.err>>

\* the round goes on after an error: the records follow the keys one by one, and
\* at the end of the round every file of the ChangeSet has its record
RoundNotAborted ==
    /\ pc = "for" => Len(ops) = idx - 1
    /\ pc \in {"for", "done"} =>
          \A i \in 1..Len(ops) : i <= Len(keys) /\ ops[i].f = keys[i]
    /\ (pc = "for" /\ idx > Len(keys)) => Len(ops) = Len(keys)
    /\ (pc = "done" /\ rounds > 0) => Len(ops) = Len(keys)

\* the report of the fix request carries every diagnostic of the round
ReportCarriesDiagnostics ==
    pc = "while" =>
        /\ request.report = files_with_errors
        /\ \A i \in 1..Len(ops) :
              ops[i].step.failed =>
                 \E k \in 1..Len(request.report) :
                    request.report[k] = <<ops[i].f, ops[i].step.err>>

\* C14: a patch error (search text not found, ambiguous, malformed payload) or a
\* validation failure for one file records that file with its diagnostic in the
\* round's failure set and keeps it out of staging; the round is not aborted,
\* every other file is still processed in it; and the diagnostic is in the
\* report sent with the next fix request.
C14_FileErrorsAreLocal ==
    /\ pc \in {"for", "done"} =>
          \A i \in 1..Len(ops) :
             (BlockRejected(i) \/ MalformedPatch(i) \/ ValidationFailed(i))
                 => RecordedAsFailure(i)
    /\ RoundNotAborted
    /\ ReportCarriesDiagnostics

\* the files that failed in the round just run, and those that passed
FailedInRound == {ops[i].f : i \in {j \in 1..Len(ops) : ops[j].step.failed}}
PassedInRound == {ops[i].f : i \in {j \in 1..Len(ops) : ~ops[j].step.failed}}

\* C15: in every fix request the paths sent to the producer are exactly the
\* files that failed in the round just run (no passing file, no file outside the
\* failure set), and the report holds the diagnostic of each of them.
C15_RequestScope ==
    pc = "while" =>
        /\ request.files = FailedInRound
        /\ DOMAIN request.sent = FailedInRound
        /\ request.files \cap PassedInRound = {}
        /\ request.files # {}
        /\ \A i \in 1..Len(ops) :
              ops[i].step.failed =>
                 \E k \in 1..Len(request.report) :
                    request.report[k] = <<ops[i].f, ops[i].step.err>>
        /\ \A k \in 1..Len(request.report) : request.report[k][1] \in FailedInRound

C15_Witness ==
    /\ pc = "while"
    /\ FailedInRound # {}
    /\ PassedInRound # {}
    /\ request.files = FailedInRound

\* C16: the content sent to the producer for a failing file is what the file
\* holds on disk when the request is made: the unchanged original after a patch
\* error, the content just written after a validation failure; it is read from
\* the file, never taken from the proposed payload.
C16_ReadBack ==
    pc = "while" =>
        \A i \in 1..Len(ops) :
            ops[i].step.failed =>
                /\ disk[ops[i].f].exists
                /\ request.sent[ops[i].f].from = "disk"
                /\ request.sent[ops[i].f].p = Str(disk[ops[i].f].c)
                /\ ops[i].step.wrote => disk[ops[i].f].c = ops[i].step.c
                /\ ~ops[i].step.wrote =>
                       (ops[i].before.exists /\ disk[ops[i].f] = ops[i].before)

C16_Witness ==
    /\ pc = "while"
    /\ \E i, j \in 1..Len(ops) :
          /\ ops[i].step.failed /\ ~ops[i].step.wrote
          /\ request.sent[ops[i].f].p = Str(ops[i].before.c)
          /\ request.sent[ops[i].f].p # request.prior[ops[i].f]
          /\ ops[j].step.failed /\ ops[j].step.wrote
          /\ request.sent[ops[j].f].p = Str(ops[j].step.c)

\* C17: once a fix response has been merged, the ChangeSet holds the response's
\* payload for every key of the response (old keys overwritten, new keys added)
\* and the payload it had before for every other key; its keys are the old keys
\* together with the response's keys, so no key is removed; and the ChangeSet is
\* not altered in any other way until the next merge.
C17_MergeOverwritesByKey ==
    fix_requests > 0 =>
        /\ \A p \in DOMAIN request.answer :
              p \in DOMAIN changes /\ changes[p] = request.answer[p]
        /\ \A p \in (DOMAIN request.prior) \ (DOMAIN request.answer) :
              p \in DOMAIN changes /\ changes[p] = request.prior[p]
        /\ DOMAIN changes = (DOMAIN request.prior) \cup (DOMAIN request.answer)
        /\ {keys[i] : i \in 1..Len(keys)} = DOMAIN changes
        /\ Len(keys) = Cardinality(DOMAIN changes)

C17_Witness ==
    /\ pc = "while"
    /\ fix_requests > 0
    /\ \E p \in (DOMAIN request.prior) \cap (DOMAIN request.answer) :
          request.prior[p] # request.answer[p] /\ changes[p] = request.answer[p]
    /\ (DOMAIN request.answer) \ (DOMAIN request.prior) # {}

\* the round that followed the last fix request has processed every file
RoundAfterRequestDone ==
    /\ fix_requests > 0
    /\ \/ pc = "for" /\ idx > Len(keys)
       \/ pc = "done"

\* the files of the last fix request that the producer's answer left out
Omitted == request.files \ (DOMAIN request.answer)

\* C18: a file that failed in a round and is left out of the producer's answer
\* is in the failure set of the next round again; it does not become passing
\* without a fix from the producer.
C18_OmittedFailsAgain ==
    RoundAfterRequestDone =>
        \A f \in Omitted :
            /\ f \in FailingFiles
            /\ \A i \in OpsOf(f) : ops[i].step.failed /\ ~ops[i].step.stage

\* a payload that is an object carrying a "content" entry whose value is a string
Unwrappable(p) == p.t = "dict" /\ p.c = "str"

\* C19: a payload that is not a string is never applied or written and leaves
\* the file on disk as it was, whether it is an object without "content", an
\* object whose "content" is not a string, or any other value; the one
\* exception is an object whose "content" is a string, which is processed as
\* that string.
C19_PayloadShape ==
    pc \in {"for", "done"} =>
        \A i \in 1..Len(ops) :
            LET p == changes[ops[i].f] IN
            /\ (p.t # "str" /\ ~Unwrappable(p)) =>
                  /\ ~ops[i].step.wrote
                  /\ ~ops[i].step.checked
                  /\ ~ops[i].step.stage
                  /\ disk[ops[i].f] = ops[i].before
            /\ Unwrappable(p) =>
                  /\ ~ops[i].step.skipped
                  /\ ~(HasTok(SO, p.s) /\ ops[i].before.exists) =>
                        (ops[i].step.wrote /\ ops[i].step.c = p.s
                           /\ disk[ops[i].f] = OnDisk(p.s))

C19_Witness ==
    /\ pc = "done"
    /\ \E i, j \in 1..Len(ops) :
          /\ changes[ops[i].f].t # "str"
          /\ ~Unwrappable(changes[ops[i].f])
          /\ ops[i].before.exists
          /\ disk[ops[i].f] = ops[i].before
          /\ Unwrappable(changes[ops[j].f])
          /\ ops[j].before.exists
          /\ disk[ops[j].f] = OnDisk(changes[ops[j].f].s)
          /\ disk[ops[j].f] # ops[j].before

\* record i has a string payload that is written: it is no patch for an
\* existing file, or it is one that the patch engine did not reject
Writable(i) ==
    /\ changes[ops[i].f].t = "str" \/ Unwrappable(changes[ops[i].f])
    /\ \/ ~HasTok(SO, changes[ops[i].f].s)
       \/ ~ops[i].before.exists
       \/ ops[i].step.err \notin {"NotFound", "Ambiguous"}

\* C23: a file that is not a .py file always passes validation, whatever its
\* content; the loop still writes it; neither compile nor the style checker
\* runs for it.
C23_OtherFilesPass ==
    pc \in {"for", "done"} =>
        \A i \in 1..Len(ops) :
            ops[i].f = OtherFile =>
                /\ ops[i].step.err = "none" \/ ~ops[i].step.checked
                /\ ~ops[i].step.compiled
                /\ ~ops[i].step.linted
                /\ Writable(i) =>
                      /\ ops[i].step.wrote
                      /\ ops[i].step.checked
                      /\ ops[i].step.stage
                      /\ ~ops[i].step.failed
                      /\ disk[OtherFile] = OnDisk(ops[i].step.c)

C23_Witness ==
    /\ pc = "done"
    /\ \E i \in 1..Len(ops) :
          /\ ops[i].f = OtherFile
          /\ changes[OtherFile] = Str(BadText)
          /\ ops[i].step.wrote
          /\ disk[OtherFile] = OnDisk(BadText)
          /\ ops[i].step.stage
          /\ ruff = "works"

OneFileNotFound ==
    /\ rounds = 1
    /\ pc = "for"
    /\ Len(keys) = 1
    /\ Len(ops) = 1
    /\ changes[keys[1]].t = "str"
    /\ ops[1].before.exists
    /\ Len(FindIter(changes[keys[1]].s, 1)) = 1
    /\ ~StrIn(FindIter(changes[keys[1]].s, 1)[1].search, ops[1].before.c)

\* the first fix request was for that one file, and the producer answered with
\* full content for it (no marker) that passes check_code
AnsweredWithValidContent ==
    /\ fix_requests = 1
    /\ Cardinality(DOMAIN request.prior) = 1
    /\ \E f \in DOMAIN request.prior :
          /\ request.report = <<<<f, "NotFound">>>>
          /\ DOMAIN request.answer = {f}
          /\ request.answer[f].t = "str"
          /\ ~HasTok(SO, request.answer[f].s)
          /\ CheckCode(f, request.answer[f].s, ruff) = "none"

\* C26: for a ChangeSet of one file whose patch payload has a search text that
\* does not occur in the existing file, round 1 records a not-found failure and
\* leaves the file as it was; one fix is requested; when the producer answers
\* with valid full content for that file, round 2 writes it and the session
\* returns true after exactly two rounds.
C26_RepairScenario ==
    /\ OneFileNotFound =>
          /\ ops[1].step.failed
          /\ ops[1].step.err = "NotFound"
          /\ ~ops[1].step.wrote
          /\ disk[keys[1]] = ops[1].before
          /\ files_with_errors = <<<<keys[1], "NotFound">>>>
          /\ fix_requests = 0
          /\ writes = 0
    /\ AnsweredWithValidContent =>
          /\ rounds <= 2
          /\ fix_requests = 1
          /\ pc = "while" => (rounds = 1 /\ writes = 0)
          /\ (pc = "for" /\ Len(ops) = 1) =>
                /\ ops[1].step.wrote
                /\ ops[1].step.c = request.answer[keys[1]].s
                /\ ops[1].step.stage
                /\ files_with_errors = <<>>
          /\ pc = "done" =>
                /\ ret = "true"
                /\ rounds = 2
                /\ writes = 1
                /\ disk[keys[1]] = OnDisk(request.answer[keys[1]].s)

C26_Witness ==
    /\ AnsweredWithValidContent
    /\ pc = "done"
    /\ ret = "true"
    /\ rounds = 2
    /\ keys = <<PyFile>>
    /\ disk[PyFile] = OnDisk(GoodText)

\* record i is for a payload with the start marker and a file that existed
MarkerAndTarget(i) == HasTok(SO, PayloadText(i)) /\ ops[i].before.exists

\* C32: apply_diff is called only for a payload that holds the start marker
\* and a target file that already exists; when the target does not exist or
\* the payload has no marker, the payload string is written as it is and the
\* file's content after the write equals the payload.
C32_PatchOrAsIs ==
    pc \in {"for", "done"} =>
        \A i \in DOMAIN ops :
            /\ ops[i].patched => (~ops[i].step.skipped /\ MarkerAndTarget(i))
            /\ (~ops[i].step.skipped /\ ~MarkerAndTarget(i)) =>
                  /\ ~ops[i].patched
                  /\ ops[i].step.wrote
                  /\ ops[i].step.c = PayloadText(i)
                  /\ disk[ops[i].f] = OnDisk(PayloadText(i))

\* a payload with the start marker written as it is to a file that was absent
C32_Witness ==
    /\ pc = "done"
    /\ \E i \in DOMAIN ops :
          /\ ~ops[i].step.skipped
          /\ HasTok(SO, PayloadText(i))
          /\ ~ops[i].before.exists
          /\ ~ops[i].patched
          /\ disk[ops[i].f] = OnDisk(PayloadText(i))

\* record i is for a patch payload of two or more blocks of which one failed
MultiBlockFailed(i) ==
    /\ ~ops[i].step.skipped
    /\ MarkerAndTarget(i)
    /\ Len(FindIter(PayloadText(i), 1)) >= 2
    /\ ops[i].step.err \in {"NotFound", "Ambiguous"}

\* C33: when a block of a multi-block patch payload fails, not found or
\* ambiguous, the file holds after the attempt what it held before it; the
\* replacements of the payload's earlier blocks are not written.
C33_FailedPatchLeavesFile ==
    pc \in {"for", "done"} =>
        \A i \in DOMAIN ops :
            MultiBlockFailed(i) =>
                /\ ~ops[i].step.wrote
                /\ disk[ops[i].f] = ops[i].before
                /\ ops[i].f \in FailingFiles

\* the first block applies to the file and the second one fails
C33_Witness ==
    /\ pc = "for"
    /\ \E i \in DOMAIN ops :
          /\ MultiBlockFailed(i)
          /\ LET ms == FindIter(PayloadText(i), 1)
             IN  /\ ApplyBlock(ops[i].before.c, ms[1].search, ms[1].replace).ok
                 /\ ApplyBlock(ops[i].before.c, ms[1].search, ms[1].replace).val # ops[i].before.c
          /\ disk[ops[i].f] = ops[i].before

\* C34: every file of the round's failure set exists on disk, at the latest
\* when the fix is requested: a failure without a write is a patch error on a
\* file that existed, and every other failure follows a write. So the code
\* sent to the producer is read from disk for every failing file, and the
\* ChangeSet payload is never sent in its place.
C34_FailingFilesExist ==
    /\ \A f \in FailingFiles : disk[f].exists
    /\ \A i \in DOMAIN ops :
          ops[i].step.failed =>
              IF ops[i].step.wrote THEN ops[i].step.checked
              ELSE ops[i].patched /\ ops[i].before.exists
    /\ pc = "while" =>
          /\ request.files = FailingFiles
          /\ \A f \in request.files : request.sent[f].from # "changes"

\* a file that did not exist before the round is in the failure set at the
\* request
C34_Witness ==
    /\ pc = "while"
    /\ \E i \in DOMAIN ops :
          /\ ops[i].step.failed
          /\ ~ops[i].before.exists
          /\ ops[i].f \in request.files
          /\ request.sent[ops[i].f].from = "disk"

\* C27: when round 1 has attempted every file and its failure set is empty, the
\* session returns true with no retry consumed and without calling the
\* producer, and every file of the ChangeSet holds on disk the content its
\* payload was applied to give.
C27_FirstRoundSuccess ==
    /\ (pc = "for" /\ rounds = 1 /\ idx > Len(keys)) => (retry_count = 0 /\ fix_requests = 0)
    /\ (pc = "done" /\ rounds = 1 /\ files_with_errors = <<>>) =>
          /\ ret = "true"
          /\ retry_count = 0
          /\ fix_requests = 0
          /\ request = NoRequest
          /\ \A f \in DOMAIN changes :
                \E i \in OpsOf(f) :
                    /\ ops[i].step.wrote
                    /\ disk[f] = OnDisk(ops[i].step.c)
                    /\ ops[i].step.c = ResolveContent(changes[f].s, ops[i].before).val

------------------------------------------------------------------------------
(* Properties of apply_diff (checked under SpecDiff) *)

\* the start positions at which s occurs in o
Positions(s, o) == {p \in 1..(Len(o) + 1) : OccursAt(s, o, p)}

\* s occurs in o at two positions that do not overlap
TwoDisjoint(s, o) ==
    \E p, q \in Positions(s, o) : p < q /\ q >= p + Len(s)

\* the replaced text: everything before position p, then r, then everything
\* after the occurrence of s at p
Spliced(o, p, s, r) == SubSeq(o, 1, p - 1) \o r \o SubSeq(o, p + Len(s), Len(o))

C6_NotFoundFails ==
    \A i \in 1..Len(dlog) :
        Positions(dlog[i].search, dlog[i].buf) = {} =>
            /\ dlog[i].res = Raised("NotFound")
            /\ dpc = "done"
            /\ dres = Raised("NotFound")

C6_Witness ==
    /\ dpc = "done"
    /\ Len(dlog) >= 1
    /\ Positions(dlog[Len(dlog)].search, dlog[Len(dlog)].buf) = {}
    /\ dres.err = "NotFound"

\* C7: a block whose search text occurs exactly once in the buffer replaces that
\* occurrence by the replace text and leaves the rest of the buffer as it was; a
\* single-block payload returns exactly that text.
C7_ExactMatchReplaces ==
    /\ \A i \in 1..Len(dlog) :
          Cardinality(Positions(dlog[i].search, dlog[i].buf)) = 1 =>
             dlog[i].res = Returned(Spliced(dlog[i].buf,
                                            CHOOSE p \in Positions(dlog[i].search, dlog[i].buf) : TRUE,
                                            dlog[i].search, dlog[i].replace))
    /\ (dpc = "done" /\ Len(matches) = 1) =>
          (Len(dlog) = 1 /\ dlog[1].buf = original_content /\ dres = dlog[1].res)

C7_Witness ==
    /\ dpc = "done"
    /\ Len(matches) = 1
    /\ Cardinality(Positions(matches[1].search, original_content)) = 1
    /\ dres.ok
    /\ dres.val # original_content
    /\ Len(original_content) > Len(matches[1].search)

\* a single block was applied to an original holding its search text exactly once
SingleExactApply ==
    /\ dpc = "done"
    /\ Len(matches) = 1
    /\ Cardinality(Positions(matches[1].search, original_content)) = 1
    /\ dres.ok

\* C8 as stated: after a successful single-block apply to an original holding the
\* search text exactly once, the result holds no occurrence of the search text
\* unless the replace text holds one.
C8_NoSearchTextLeft ==
    (SingleExactApply /\ ~StrIn(matches[1].search, matches[1].replace))
        => Positions(matches[1].search, dres.val) = {}

\* C8 amended: after such an apply (search text non-empty, found at position p),
\* every occurrence of the search text in the result overlaps the inserted
\* replace text or spans the place where it was inserted; none lies wholly in the
\* text before p or wholly in the text after the replaced occurrence.
C8_OccurrencesTouchReplacement ==
    (SingleExactApply /\ matches[1].search # <<>>) =>
        LET p == CHOOSE x \in Positions(matches[1].search, original_content) : TRUE
        IN  \A q \in Positions(matches[1].search, dres.val) :
               /\ q + Len(matches[1].search) > p
               /\ q < p + Len(matches[1].replace)

C8_Witness ==
    /\ SingleExactApply
    /\ matches[1].search # <<>>
    /\ ~StrIn(matches[1].search, matches[1].replace)
    /\ Positions(matches[1].search, dres.val) # {}

\* C9: a payload without the start marker is returned verbatim, whatever the
\* original content.
C9_FullReplacement ==
    (dpc = "done" /\ ~HasTok(SO, diff_content)) => dres = Returned(diff_content)

C9_Witness ==
    /\ dpc = "done"
    /\ ~HasTok(SO, diff_content)
    /\ diff_content # original_content
    /\ original_content # <<>>
    /\ dres = Returned(diff_content)

\* C10: a payload that holds the start marker but from which no block parses
\* returns the original content unchanged, never the payload.
C10_NoBlockKeepsOriginal ==
    (dpc = "done" /\ HasTok(SO, diff_content) /\ matches = <<>>)
        => (dres = Returned(original_content) /\ dres.val # diff_content)

C10_Witness ==
    /\ dpc = "done"
    /\ HasTok(SO, diff_content)
    /\ matches = <<>>
    /\ original_content # <<>>
    /\ dres = Returned(original_content)

\* the payload is two blocks, and the same two blocks in the other order
TwoBlockPayload ==
    /\ Len(matches) = 2
    /\ diff_content = Block(matches[1].search, matches[1].replace) \o <<NL>>
                         \o Block(matches[2].search, matches[2].replace)
SwappedPayload ==
    Block(matches[2].search, matches[2].replace) \o <<NL>>
        \o Block(matches[1].search, matches[1].replace)

Tokens(t) == {t[i] : i \in 1..Len(t)}

\* the two blocks target disjoint text of the original: each search text is
\* non-empty and occurs at exactly one position, and the two occurrences do not
\* overlap; and neither search text shares a character with the other block's
\* replace text
DisjointTargets ==
    /\ matches[1].search # <<>>
    /\ matches[2].search # <<>>
    /\ Cardinality(Positions(matches[1].search, original_content)) = 1
    /\ Cardinality(Positions(matches[2].search, original_content)) = 1
    /\ LET p1 == CHOOSE p \in Positions(matches[1].search, original_content) : TRUE
           p2 == CHOOSE p \in Positions(matches[2].search, original_content) : TRUE
       IN  p1 + Len(matches[1].search) <= p2 \/ p2 + Len(matches[2].search) <= p1
NoCrossOverlap ==
    /\ Tokens(matches[1].search) \cap Tokens(matches[2].replace) = {}
    /\ Tokens(matches[2].search) \cap Tokens(matches[1].replace) = {}

\* both succeed with the same content, or both fail
SameOutcome(x, y) == x.ok = y.ok /\ (x.ok => x.val = y.val)

\* C12 as stated: two blocks targeting disjoint text of the original, neither
\* search text overlapping the other block's replace text, give the same outcome
\* in payload order [1,2] and in payload order [2,1].
C12_OrderIndependent ==
    (dpc = "done" /\ TwoBlockPayload /\ DisjointTargets /\ NoCrossOverlap)
        => SameOutcome(dres, ApplyDiff(original_content, SwappedPayload))

\* o with the occurrence of s1 at p1 replaced by r1 and the occurrence of s2 at
\* p2 replaced by r2, for p1 + Len(s1) <= p2
BothSpliced(o, p1, s1, r1, p2, s2, r2) ==
    SubSeq(o, 1, p1 - 1) \o r1 \o SubSeq(o, p1 + Len(s1), p2 - 1) \o r2
        \o SubSeq(o, p2 + Len(s2), Len(o))

\* C12 amended: when, in addition, both replace texts are non-empty, both payload
\* orders succeed and return the original with each of the two occurrences
\* replaced by its block's replace text.
C12_OrderIndependentNonEmpty ==
    (dpc = "done" /\ TwoBlockPayload /\ DisjointTargets /\ NoCrossOverlap
       /\ matches[1].replace # <<>> /\ matches[2].replace # <<>>)
        => LET p1 == CHOOSE p \in Positions(matches[1].search, original_content) : TRUE
               p2 == CHOOSE p \in Positions(matches[2].search, original_content) : TRUE
               both == IF p1 < p2
                       THEN BothSpliced(original_content,
                                        p1, matches[1].search, matches[1].replace,
                                        p2, matches[2].search, matches[2].replace)
                       ELSE BothSpliced(original_content,
                                        p2, matches[2].search, matches[2].replace,
                                        p1, matches[1].search, matches[1].replace)
           IN  /\ dres = Returned(both)
               /\ ApplyDiff(original_content, SwappedPayload) = dres

C12_Witness ==
    /\ dpc = "done"
    /\ TwoBlockPayload
    /\ DisjointTargets
    /\ NoCrossOverlap
    /\ matches[1].replace # <<>>
    /\ matches[2].replace # <<>>
    /\ matches[1].replace # matches[2].replace
    /\ Len(dlog) = 2
    /\ dres.ok
    /\ dres.val # original_content

\* the number of start positions at which s occurs in o, overlapping
\* occurrences counted each
Starts(s, o) == Cardinality(Positions(s, o))

\* C29: a block's replacement is performed only if its search text occurs at
\* exactly one start position of the current buffer, overlapping occurrences
\* counted as distinct positions; with no position the call fails not-found
\* and with more than one it fails ambiguous.
C29_ExactlyOnePosition ==
    \A i \in DOMAIN dlog :
        LET e == dlog[i]
            n == Starts(e.search, e.buf)
        IN  /\ e.res.ok => n = 1
            /\ n = 0 => e.res = Raised("NotFound")
            /\ n > 1 => e.res = Raised("Ambiguous")

\* the first position at which s occurs in o
FirstStart(s, o) == CHOOSE p \in Positions(s, o) : \A q \in Positions(s, o) : p <= q

\* C30: the blocks of a payload are applied in payload order, the first to the
\* original content and each later one to the buffer the block before it
\* produced: whether a block is found, and what its replacement gives, is
\* decided on that buffer. A block whose search text an earlier replacement
\* created applies; one whose search text an earlier replacement removed fails
\* not-found. The content returned is the buffer after the last block.
C30_SequentialApplication ==
    /\ Len(dlog) <= Len(matches)
    /\ \A i \in DOMAIN dlog :
          LET e == dlog[i]
          IN  /\ e.search = matches[i].search
              /\ e.replace = matches[i].replace
              /\ e.buf = IF i = 1 THEN original_content ELSE dlog[i - 1].res.val
              /\ i > 1 => dlog[i - 1].res.ok
              /\ e.res.ok => /\ Positions(e.search, e.buf) # {}
                             /\ e.res.val = Spliced(e.buf, FirstStart(e.search, e.buf), e.search, e.replace)
              /\ Positions(e.search, e.buf) = {} => e.res = Raised("NotFound")
              /\ Starts(e.search, e.buf) = 1 => e.res.ok
    /\ (dpc = "done" /\ matches # <<>> /\ dres.ok) =>
          /\ Len(dlog) = Len(matches)
          /\ dres = dlog[Len(dlog)].res

\* a second block whose search text only the first block's replacement created
C30_Witness ==
    /\ dpc = "done"
    /\ Len(dlog) = 2
    /\ Positions(dlog[2].search, original_content) = {}
    /\ dlog[2].res.ok
    /\ dres = dlog[2].res
    /\ dres.val # dlog[1].res.val

\* the pairs a list of blocks stands for
Pairs(bs) == [i \in DOMAIN bs |-> [search |-> BodyText(bs[i].s), replace |-> BodyText(bs[i].r)]]

\* C31: a payload that is the concatenation of k blocks in the wire format
\* parses into exactly k (search, replace) pairs in payload order, each body
\* equal to its lines verbatim; a body may have no line and its lines may read
\* like delimiters.
C31_BlockParsing ==
    dpc # "call" =>
        \A bs \in BlockLists : diff_content = Wire(bs) => matches = Pairs(bs)

------------------------------------------------------------------------------
(* Properties of check_code (checked under SpecCheck) *)

\* the call is for a Python file whose content compile() rejects
FailsToCompile == EndsWithPy(cfile) /\ CompileOutcome(csrc) # "ok"

\* C20 as stated: for a Python file whose content fails to parse or compile,
\* check_code returns a failure naming a SyntaxError, at once, and the style
\* checker is not invoked in that call.
C20_SyntaxFirst ==
    FailsToCompile =>
        /\ ~linted
        /\ cpc # "lint"
        /\ cpc = "done" => cres = "SyntaxError"

\* C20 amended: for such a file check_code returns a failure at once, naming a
\* SyntaxError when compile raised SyntaxError and an error of reading or
\* compiling when it raised any other exception; the style checker is not
\* invoked in that call.
C20_CompileFailureFirst ==
    FailsToCompile =>
        /\ ~linted
        /\ cpc # "lint"
        /\ cpc = "done" =>
              /\ compiled
              /\ cres \in {"SyntaxError", "Error reading/compiling"}
              /\ cres = "SyntaxError" <=> CompileOutcome(csrc) = "SyntaxError"

C20_Witness ==
    /\ cpc = "done"
    /\ FailsToCompile
    /\ cres = "SyntaxError"
    /\ HasTok("w", csrc)
    /\ cenv = "works"
    /\ ~linted

\* the call is for a Python file that compiles, and the checker ran to an exit
LintRan ==
    /\ EndsWithPy(cfile)
    /\ CompileOutcome(csrc) = "ok"
    /\ RuffRun(csrc, cenv).exc = "none"

\* C21 as stated: for a Python file that compiles, whenever the checker exits
\* non-zero and its captured output, stdout and stderr together, is non-empty,
\* check_code returns a 'Linter Errors' failure that embeds that output.
C21_LintFailureOnAnyOutput ==
    (cpc = "done" /\ LintRan /\ RuffRun(csrc, cenv).rc # 0
       /\ RuffRun(csrc, cenv).stdout \o RuffRun(csrc, cenv).stderr # <<>>)
        => /\ cres = "Linter Errors"
           /\ cembed = RuffRun(csrc, cenv).stdout \o RuffRun(csrc, cenv).stderr

\* C21 amended: for such a file, whenever the checker exits non-zero and its
\* captured stdout holds more than whitespace, check_code returns a 'Linter
\* Errors' failure that embeds the captured stdout; stderr is not looked at.
C21_LintFailureOnStdout ==
    (cpc = "done" /\ LintRan /\ RuffRun(csrc, cenv).rc # 0
       /\ \E i \in 1..Len(RuffRun(csrc, cenv).stdout) :
              ~IsSpace(RuffRun(csrc, cenv).stdout[i]))
        => /\ cres = "Linter Errors"
           /\ linted
           /\ cembed = RuffRun(csrc, cenv).stdout

C21_Witness ==
    /\ cpc = "done"
    /\ LintRan
    /\ cenv = "both_streams"
    /\ cres = "Linter Errors"
    /\ cembed = Finding

\* the checker did not report: it exited zero, or exited non-zero without any
\* output, or was not found, or its execution raised another error
CheckerDegraded ==
    \/ RuffRun(csrc, cenv).exc = "FileNotFoundError"
    \/ RuffRun(csrc, cenv).exc = "Exception"
    \/ RuffRun(csrc, cenv).exc = "none" /\ RuffRun(csrc, cenv).rc = 0
    \/ /\ RuffRun(csrc, cenv).exc = "none"
       /\ RuffRun(csrc, cenv).rc # 0
       /\ RuffRun(csrc, cenv).stdout = <<>>
       /\ RuffRun(csrc, cenv).stderr = <<>>

\* C22: for a Python file that compiles, check_code returns None (Pass)
\* whenever the checker exits zero, exits non-zero with no output, is not found,
\* or raises any other error on execution; none of these is a failure.
C22_LintDegradesToPass ==
    (cpc = "done" /\ EndsWithPy(cfile) /\ CompileOutcome(csrc) = "ok" /\ CheckerDegraded)
        => (cres = "none" /\ linted /\ cembed = <<>>)

C22_Witness ==
    /\ cpc = "done"
    /\ EndsWithPy(cfile)
    /\ CompileOutcome(csrc) = "ok"
    /\ cenv = "silent_fail"
    /\ linted
    /\ cres = "none"

------------------------------------------------------------------------------
(* Properties of the callers (checked under SpecCaller) *)

\* C25: process_issue and process_pr_feedback commit and push only after
\* validate_and_fix has returned true; when it returns false, for an exhausted
\* budget or an empty ChangeSet, no commit, no push and no pull request is made.
C25_CommitOnlyAfterSuccess ==
    /\ (kcommit \/ kpush \/ kpr \/ kpc \in {"commit", "push", "pull_request"})
          => kret = "true"
    /\ kret = "false" => (kpc = "returned" /\ ~kcommit /\ ~kpush /\ ~kpr)
    /\ kret = "notcalled" => (~kcommit /\ ~kpush /\ ~kpr)
    /\ kpush => kcommit
    /\ kpr => kpush

C25_Witness ==
    /\ kpc = "returned"
    /\ kcaller = "feedback"
    /\ ~kenv.produced
    /\ kret = "false"
    /\ ~kcommit

\* C35: process_pr_feedback called for a pull request that already has 3 or
\* more commits halts before any repair work: it goes from its start to its
\* return without preparing the workspace, asking the producer or calling
\* validate_and_fix, and makes no commit and no push; at most the notice
\* comment is posted. Below 3 commits no notice is posted.
C35_LoopProtection ==
    kcaller = "feedback" =>
        /\ kenv.commits >= 3 =>
              /\ kpc \in {"start", "returned"}
              /\ kret = "notcalled"
              /\ ~kcommit /\ ~kpush /\ ~kpr
              /\ kcomment => (kpc = "returned" /\ kenv.comment_ok)
        /\ kenv.commits < 3 => ~kcomment

\* halted at exactly 3 commits, notice posted
C35_Witness ==
    /\ kcaller = "feedback"
    /\ kenv.commits = 3
    /\ kenv.repo_ok /\ kenv.readable /\ kenv.produced /\ kenv.valid /\ kenv.push_ok
    /\ kpc = "returned"
    /\ kcomment
    /\ kret = "notcalled"
    /\ ~kcommit

------------------------------------------------------------------------------
(* Properties of the file tree (checked under SpecPath) *)

\* C28: for every ChangeSet key, absolute keys and keys with ".." segments
\* included, every directory created and every file written lies inside the
\* workspace root.
C28_WorkspaceConfinement ==
    /\ \A d \in made : Inside(d)
    /\ \A f \in written : Inside(f)

====
